---- MODULE Spec2Model ----
(***************************************************************************)
(* A model of experiment_iva.py: the Monte-Carlo driver (gen_args, the     *)
(* shuffle, the progress tracker process, pool.map over one_loop, the      *)
(* distribution of the results into the ISR and cost tables, the save) and *)
(* the metric ISR / scale_permute.                                         *)
(***************************************************************************)
EXTENDS Integers, Sequences, FiniteSets, TLC

VARIABLES
    pc,          \* position of the driver (__main__)
    args,        \* the task list: gen_args' output, then shuffled
    status,      \* status[k]: where the pool's call one_loop(args[k]) stands
    results,     \* the pool's result slots, one per task, in the order of args
    doneOrder,   \* the tasks in the order in which their call ended
    the_queue,   \* the completion-signal queue (m.Queue())
    tracker_pc,  \* position of the progress_tracker process
    n_tasks,     \* progress_tracker's counter
    isr_tables,  \* isr_tables[pi][algo]: list of rows
    cost_tables, \* cost_tables[pi][algo]: list of rows
    saved,       \* the files np.savez wrote
    W, A,        \* the inputs of the metric: estimated demixing, true mixing
    solver,      \* which of several optimal assignments the solver returns
    isr_out      \* the calls of ISR made so far and what they returned

vars == <<pc, args, status, results, doneOrder, the_queue, tracker_pc, n_tasks,
          isr_tables, cost_tables, saved, W, A, solver, isr_out>>

drivervars == <<pc, args, status, results, doneOrder, the_queue, tracker_pc,
                n_tasks, isr_tables, cost_tables, saved>>

metricvars == <<W, A, solver, isr_out>>

(***************************************************************************)
(* The configuration.                                                      *)
(***************************************************************************)
master_seed == 8856641

\* repetitions per scenario (1000 in the source's config)
n_repeat == 3

\* iterations of every algorithm (100 in the source's config)
n_iter == 3

\* processes of multiprocessing.Pool()
NWorkers == 2

\* range of np.random.randint (2 ** 32 in the source)
RandRange == 16

\* the first scenario of config["params"]
params == << [n_freq |-> 6, n_chan |-> 4, pca |-> TRUE] >>

\* two of config["algos"]: one ordinary algorithm, one dual-update
algos == {"auxiva", "auxiva2"}

\* bss.is_dual_update
is_dual_update(algo) == algo = "auxiva2"

NParams == Len(params)

ParamIndex == 0 .. (NParams - 1)

NTasks == NParams * n_repeat

TaskIds == 1 .. NTasks

(***************************************************************************)
(* gen_args: one task per (scenario, repetition), each with the next draw  *)
(* of the stream seeded with master_seed.                                  *)
(***************************************************************************)
\* one step of the seeded stream (a full-period congruential generator
\* stands for numpy's generator: a deterministic function of the state)
NextRand(s) == (5 * s + 3) % RandRange

RECURSIVE Draw(_)
\* the k-th value np.random.randint returns after np.random.seed(master_seed)
Draw(k) == IF k = 0 THEN master_seed % RandRange ELSE NextRand(Draw(k - 1))

gen_args ==
    [k \in TaskIds |->
        LET i == (k - 1) \div n_repeat
        IN  [param_index |-> i,
             n_freq |-> params[i + 1].n_freq,
             n_chan |-> params[i + 1].n_chan,
             pca |-> params[i + 1].pca,
             seed |-> Draw(k)]]

(***************************************************************************)
(* one_loop: the trajectories of one trial.                                *)
(***************************************************************************)
RECURSIVE arange(_, _, _)
\* np.arange(start, stop, step)
arange(start, stop, step) ==
    IF start >= stop THEN <<>> ELSE <<start>> \o arange(start + step, stop, step)

\* every algorithm sampled at every iteration
callback_checkpoints_every(algo) == arange(1, n_iter + 1, 1)

callback_checkpoints(algo) ==
    IF is_dual_update(algo)
    THEN arange(2, n_iter + 1, 2)
    ELSE arange(1, n_iter + 1, 1)

\* bss.algos[algo_name](..., callback, callback_checkpoints): the iterations
\* at which the algorithm invokes callback, one call per listed checkpoint
AlgoCallbacks(checkpoints) == checkpoints

\* the iterations at which callback runs for one algorithm: once for the
\* mixture (iteration 0), then the algorithm's calls
CallbackCalls(algo) == <<0>> \o AlgoCallbacks(callback_checkpoints(algo))

\* isr_list after the algorithm returned: one value per call of callback;
\* a value is a function of the scenario, the seed, the algorithm and the
\* iteration, which is all the model keeps of it
isr_list(task, algo) ==
    [n \in 1 .. Len(CallbackCalls(algo)) |->
        <<"isr", task.param_index, task.seed, CallbackCalls(algo)[n]>>]

cost_list(task, algo) ==
    [n \in 1 .. Len(CallbackCalls(algo)) |->
        <<"cost", task.param_index, task.seed, CallbackCalls(algo)[n]>>]

\* the value one_loop returns: (param_index, isr, cost)
one_loop(task) ==
    [param_index |-> task.param_index,
     isr |-> [a \in algos |-> isr_list(task, a)],
     cost |-> [a \in algos |-> cost_list(task, a)]]

(***************************************************************************)
(* __main__: the driver, the pool's workers and the tracker process.       *)
(***************************************************************************)
\* the permutations of the task list np.random.shuffle can produce
Shuffles == {p \in [TaskIds -> TaskIds] : \A k \in TaskIds : \E j \in TaskIds : p[j] = k}

Permuted(list, p) == [k \in TaskIds |-> list[p[k]]]

EmptyTables == [pi \in ParamIndex |-> [a \in algos |-> <<>>]]

RECURSIVE DistributeIsr(_, _)
\* the loop over results, for the ISR tables: the first n results appended
DistributeIsr(res, n) ==
    IF n = 0 THEN EmptyTables
    ELSE LET t == DistributeIsr(res, n - 1)
             r == res[n]
         IN  [t EXCEPT ![r.param_index] = [a \in algos |-> Append(@[a], r.isr[a])]]

RECURSIVE DistributeCost(_, _)
\* the same loop, for the cost tables
DistributeCost(res, n) ==
    IF n = 0 THEN EmptyTables
    ELSE LET t == DistributeCost(res, n - 1)
             r == res[n]
         IN  [t EXCEPT ![r.param_index] = [a \in algos |-> Append(@[a], r.cost[a])]]

\* the results in the order in which the calls ended (imap_unordered)
PoolMapResults_unordered == [n \in TaskIds |-> results[doneOrder[n]].value]

\* the list pool.map returns once every call has returned: the results in
\* the order of the task list it was given
PoolMapResults == [k \in TaskIds |-> results[k].value]

Busy == {k \in TaskIds : status[k] \in {"running", "signalled"}}

Ended(k) == status[k] \in {"returned", "raised"}

DriverInit ==
    /\ pc = "gen_args"
    /\ args = <<>>
    /\ status = [k \in TaskIds |-> "pending"]
    /\ results = [k \in TaskIds |-> [kind |-> "none"]]
    /\ doneOrder = <<>>
    /\ the_queue = <<>>
    /\ tracker_pc = "idle"
    /\ n_tasks = 0
    /\ isr_tables = EmptyTables
    /\ cost_tables = EmptyTables
    /\ saved = {}

GenArgs ==
    /\ pc = "gen_args"
    /\ args' = gen_args
    /\ pc' = "shuffle"
    /\ UNCHANGED <<status, results, doneOrder, the_queue, tracker_pc, n_tasks,
                   isr_tables, cost_tables, saved, W, A, solver, isr_out>>

Shuffle ==
    /\ pc = "shuffle"
    /\ \E p \in Shuffles : args' = Permuted(args, p)
    /\ pc' = "start_tracker"
    /\ UNCHANGED <<status, results, doneOrder, the_queue, tracker_pc, n_tasks,
                   isr_tables, cost_tables, saved, W, A, solver, isr_out>>

\* Process(target=progress_tracker, args=(len(args), the_queue)).start()
StartTracker ==
    /\ pc = "start_tracker"
    /\ tracker_pc' = "test"
    /\ n_tasks' = Len(args)
    /\ pc' = "map"
    /\ UNCHANGED <<args, status, results, doneOrder, the_queue,
                   isr_tables, cost_tables, saved, W, A, solver, isr_out>>

\* progress_tracker: the test of the while loop
TrackerTest ==
    /\ tracker_pc = "test"
    /\ tracker_pc' = IF n_tasks > 0 THEN "get" ELSE "done"
    /\ UNCHANGED <<pc, args, status, results, doneOrder, the_queue, n_tasks,
                   isr_tables, cost_tables, saved, W, A, solver, isr_out>>

\* a get that does not wait for a signal
TrackerGet_nowait ==
    /\ tracker_pc = "get"
    /\ the_queue' = IF the_queue = <<>> THEN <<>> ELSE Tail(the_queue)
    /\ n_tasks' = n_tasks - 1
    /\ tracker_pc' = "test"
    /\ UNCHANGED <<pc, args, status, results, doneOrder,
                   isr_tables, cost_tables, saved, W, A, solver, isr_out>>

\* progress_tracker: queue.get(block=True), then the decrement
TrackerGet ==
    /\ tracker_pc = "get"
    /\ the_queue # <<>>
    /\ the_queue' = Tail(the_queue)
    /\ n_tasks' = n_tasks - 1
    /\ tracker_pc' = "test"
    /\ UNCHANGED <<pc, args, status, results, doneOrder,
                   isr_tables, cost_tables, saved, W, A, solver, isr_out>>

\* a free worker of the pool takes the next task of the list (pool.map
\* cuts the list into chunks of ceil(len / (4 * processes)) tasks, which is
\* one task per chunk for the lists of this model)
WorkerStart(k) ==
    /\ pc = "map"
    /\ status[k] = "pending"
    /\ \A j \in TaskIds : j < k => status[j] # "pending"
    /\ Cardinality(Busy) < NWorkers
    /\ status' = [status EXCEPT ![k] = "running"]
    /\ UNCHANGED <<pc, args, results, doneOrder, the_queue, tracker_pc, n_tasks,
                   isr_tables, cost_tables, saved, W, A, solver, isr_out>>

\* a put on a queue of capacity one, which waits for the tracker
WorkerPut_bounded(k) ==
    /\ status[k] = "running"
    /\ Len(the_queue) < 1
    /\ the_queue' = Append(the_queue, TRUE)
    /\ status' = [status EXCEPT ![k] = "signalled"]
    /\ UNCHANGED <<pc, args, results, doneOrder, tracker_pc, n_tasks,
                   isr_tables, cost_tables, saved, W, A, solver, isr_out>>

\* one_loop: every algorithm returned; queue.put(True)
WorkerPut(k) ==
    /\ status[k] = "running"
    /\ the_queue' = Append(the_queue, TRUE)
    /\ status' = [status EXCEPT ![k] = "signalled"]
    /\ UNCHANGED <<pc, args, results, doneOrder, tracker_pc, n_tasks,
                   isr_tables, cost_tables, saved, W, A, solver, isr_out>>

\* one_loop: bss.algos[algo_name] raises; nothing catches it in one_loop, and
\* the pool stores the exception as the outcome of the call
WorkerRaise(k) ==
    /\ status[k] = "running"
    /\ status' = [status EXCEPT ![k] = "raised"]
    /\ results' = [results EXCEPT ![k] = [kind |-> "exception"]]
    /\ doneOrder' = Append(doneOrder, k)
    /\ UNCHANGED <<pc, args, the_queue, tracker_pc, n_tasks,
                   isr_tables, cost_tables, saved, W, A, solver, isr_out>>

\* one_loop: return param_index, isr, cost
WorkerReturn(k) ==
    /\ status[k] = "signalled"
    /\ status' = [status EXCEPT ![k] = "returned"]
    /\ results' = [results EXCEPT ![k] = [kind |-> "value", value |-> one_loop(args[k])]]
    /\ doneOrder' = Append(doneOrder, k)
    /\ UNCHANGED <<pc, args, the_queue, tracker_pc, n_tasks,
                   isr_tables, cost_tables, saved, W, A, solver, isr_out>>

\* pool.map returns when every call has ended: it re-raises a call's
\* exception in the driver, which has no handler, or returns the list
MapReturn ==
    /\ pc = "map"
    /\ \A k \in TaskIds : Ended(k)
    /\ pc' = IF \E k \in TaskIds : status[k] = "raised" THEN "raised" ELSE "distribute"
    /\ UNCHANGED <<args, status, results, doneOrder, the_queue, tracker_pc, n_tasks,
                   isr_tables, cost_tables, saved, W, A, solver, isr_out>>

\* the empty tables, then the loop "for (pi, isr, cost) in results"
Distribute ==
    /\ pc = "distribute"
    /\ isr_tables' = DistributeIsr(PoolMapResults, NTasks)
    /\ cost_tables' = DistributeCost(PoolMapResults, NTasks)
    /\ pc' = "save"
    /\ UNCHANGED <<args, status, results, doneOrder, the_queue, tracker_pc, n_tasks,
                   saved, W, A, solver, isr_out>>

\* the conversion of every cell to an array, and np.savez
Save ==
    /\ pc = "save"
    /\ saved' = {[isr_tables |-> isr_tables, cost_tables |-> cost_tables]}
    /\ pc' = "done"
    /\ UNCHANGED <<args, status, results, doneOrder, the_queue, tracker_pc, n_tasks,
                   isr_tables, cost_tables, W, A, solver, isr_out>>

MetricIdle == W = <<>> /\ A = <<>> /\ solver = "first" /\ isr_out = [phase |-> "idle"]

Init == DriverInit /\ MetricIdle

Next ==
    \/ GenArgs
    \/ Shuffle
    \/ StartTracker
    \/ TrackerTest
    \/ TrackerGet
    \/ \E k \in TaskIds : WorkerStart(k)
    \/ \E k \in TaskIds : WorkerPut(k)
    \/ \E k \in TaskIds : WorkerRaise(k)
    \/ \E k \in TaskIds : WorkerReturn(k)
    \/ MapReturn
    \/ Distribute
    \/ Save

Spec == Init /\ [][Next]_vars

\* the driver, the tracker and the pool's workers are operating-system
\* processes: while one of them can take a step, a step is eventually taken
Fairness == WF_vars(Next)

FairSpec == Spec /\ Fairness

(***************************************************************************)
(* Properties of the driver.                                               *)
(***************************************************************************)
\* the position of x in a sequence without repetition
Pos(seq, x) == CHOOSE n \in 1 .. Len(seq) : seq[n] = x

\* what one_loop returns for every task of a list
ResultsOf(list) == [k \in TaskIds |-> one_loop(list[k])]

\* the tasks of the (shuffled) list that belong to scenario pi
TasksOf(pi) == {k \in TaskIds : args[k].param_index = pi}

\* C1: once the results are aggregated, row k of every (scenario, algorithm)
\* cell of the ISR and cost tables is the trajectory of repetition k of that
\* scenario, in the order gen_args generated the tasks.
C1_RowsInRepetitionOrder ==
    pc = "done" =>
        \A pi \in ParamIndex, a \in algos :
            /\ Len(isr_tables[pi][a]) = n_repeat
            /\ Len(cost_tables[pi][a]) = n_repeat
            /\ \A r \in 0 .. (n_repeat - 1) :
                  LET task == gen_args[pi * n_repeat + r + 1]
                  IN  /\ isr_tables[pi][a][r + 1] = isr_list(task, a)
                      /\ cost_tables[pi][a][r + 1] = cost_list(task, a)

\* C2: the aggregated tables do not depend on the shuffle: they are the
\* tables the driver builds from any other permutation of the same task list.
C2_TablesIndependentOfShuffle ==
    pc = "done" =>
        \A q \in Shuffles :
            /\ isr_tables = DistributeIsr(ResultsOf(Permuted(gen_args, q)), NTasks)
            /\ cost_tables = DistributeCost(ResultsOf(Permuted(gen_args, q)), NTasks)

DriverEnded == pc \in {"done", "raised"}

\* C3: a trial whose algorithm raises is fatal to that task only: when the
\* driver ends, every other task has run to completion and its results are
\* in the tables, which are saved.
C3_FailureIsolated ==
    (DriverEnded /\ \E k \in TaskIds : status[k] = "raised") =>
        /\ \A k \in TaskIds : Ended(k)
        /\ saved # {}
        /\ \A k \in TaskIds, a \in algos :
              status[k] = "returned" =>
                \E n \in 1 .. Len(isr_tables[args[k].param_index][a]) :
                    /\ isr_tables[args[k].param_index][a][n] = results[k].value.isr[a]
                    /\ cost_tables[args[k].param_index][a][n] = results[k].value.cost[a]

\* the signals posted so far: those the tracker consumed and those waiting
Posted == (Len(args) - n_tasks) + Len(the_queue)

\* C4: a trial that fails still posts its completion signal, so the tracker
\* is never left waiting on an empty queue once every task has ended.
C4_FailedTrialSignals ==
    tracker_pc # "idle" =>
        /\ Posted = Cardinality({k \in TaskIds :
                                   status[k] \in {"signalled", "returned", "raised"}})
        /\ ~ ((\A k \in TaskIds : Ended(k)) /\ tracker_pc = "get" /\ the_queue = <<>>)

\* the number of checkpoints of an algorithm
NCheckpoints(a) == IF is_dual_update(a) THEN n_iter \div 2 ELSE n_iter

\* a row has the iteration-0 point, then one point per checkpoint
RowShapeOk(row, a) ==
    /\ Len(row) = 1 + NCheckpoints(a)
    /\ row[1][4] = 0
    /\ \A n \in 1 .. NCheckpoints(a) :
          row[n + 1][4] = IF is_dual_update(a) THEN 2 * n ELSE n

\* C7: when every trial completed, every cell of the ISR and cost tables has
\* n_repeat rows of 1 + K columns: iteration 0, then the K checkpoints, K =
\* n_iter for an ordinary and n_iter div 2 for a dual-update algorithm.
C7_TableShape ==
    pc = "done" =>
        \A pi \in ParamIndex, a \in algos :
            /\ Len(isr_tables[pi][a]) = n_repeat
            /\ Len(cost_tables[pi][a]) = n_repeat
            /\ \A n \in 1 .. n_repeat :
                  /\ RowShapeOk(isr_tables[pi][a][n], a)
                  /\ RowShapeOk(cost_tables[pi][a][n], a)
            /\ \E file \in saved :
                  /\ file.isr_tables[pi][a] = isr_tables[pi][a]
                  /\ file.cost_tables[pi][a] = cost_tables[pi][a]

C7_Witness == pc = "done" /\ saved # {} /\ \A k \in TaskIds : status[k] = "returned"

\* C8 as stated: within every cell the rows are in completion order: a
\* trial that ended before another of the same scenario is at a lower row.
C8_RowsInCompletionOrder ==
    pc = "done" =>
        \A x \in TaskIds, y \in TaskIds, a \in algos :
            (args[x].param_index = args[y].param_index
                /\ Pos(doneOrder, x) < Pos(doneOrder, y)) =>
                LET cell == isr_tables[args[x].param_index][a]
                IN  \E m \in 1 .. Len(cell), n \in 1 .. Len(cell) :
                        /\ m < n
                        /\ cell[m] = isr_list(args[x], a)
                        /\ cell[n] = isr_list(args[y], a)

\* C8 as amended: within every cell the rows are in the order of the
\* shuffled task list given to pool.map, whatever the order in which the
\* trials ended.
C8_RowsInTaskListOrder ==
    pc = "done" =>
        \A pi \in ParamIndex, a \in algos :
            /\ Len(isr_tables[pi][a]) = Cardinality(TasksOf(pi))
            /\ Len(cost_tables[pi][a]) = Cardinality(TasksOf(pi))
            /\ \A k \in TasksOf(pi) :
                  LET n == Cardinality({j \in TasksOf(pi) : j <= k})
                  IN  /\ isr_tables[pi][a][n] = isr_list(args[k], a)
                      /\ cost_tables[pi][a][n] = cost_list(args[k], a)

\* aggregated after two trials of one scenario ended in the inverse of
\* their order in the task list
C8_Witness ==
    /\ pc = "done"
    /\ \E x \in TaskIds, y \in TaskIds :
          /\ x < y
          /\ args[x].param_index = args[y].param_index
          /\ Pos(doneOrder, y) < Pos(doneOrder, x)

TrackerStarted == tracker_pc # "idle"

C9_Counter ==
    TrackerStarted =>
        /\ n_tasks >= 0
        /\ n_tasks = Len(args)
              - (Cardinality({k \in TaskIds : status[k] \in {"signalled", "returned"}})
                    - Len(the_queue))
        /\ tracker_pc = "done" => n_tasks = 0
        /\ tracker_pc = "done" =>
              \A k \in TaskIds : status[k] \in {"signalled", "returned"}

\* C9: the tracker's counter starts at the number of tasks, always equals
\* that number minus the signals consumed, is never negative, the tracker
\* has terminated only with the counter at zero and every signal posted,
\* and it terminates once the counter is zero; when all tasks completed
\* without error it terminates.
C9_Tracker ==
    /\ []C9_Counter
    /\ [][tracker_pc = "idle" /\ tracker_pc' # "idle" => n_tasks' = NTasks]_vars
    /\ ((TrackerStarted /\ n_tasks = 0) ~> (tracker_pc = "done"))
    /\ ((\A k \in TaskIds : status[k] = "returned") ~> (tracker_pc = "done"))

\* the tracker terminated after every task completed without error
C9_Witness ==
    /\ tracker_pc = "done"
    /\ n_tasks = 0
    /\ \A k \in TaskIds : status[k] = "returned"

\* C10: the completion signal is a put that is enabled whatever the state
\* of the tracker, and the results the driver obtains and the tables it
\* builds are those of the task list alone.
C10_TrackerNeverBlocks ==
    /\ \A k \in TaskIds : status[k] = "running" => ENABLED WorkerPut(k)
    /\ pc \in {"distribute", "save", "done"} => PoolMapResults = ResultsOf(args)
    /\ pc \in {"save", "done"} =>
          /\ isr_tables = DistributeIsr(ResultsOf(args), NTasks)
          /\ cost_tables = DistributeCost(ResultsOf(args), NTasks)

\* a trial is running while two signals wait for a slow tracker
C10_Witness ==
    /\ \E k \in TaskIds : status[k] = "running"
    /\ Len(the_queue) >= 2
    /\ tracker_pc \in {"test", "get"}

(***************************************************************************)
(* The metric: scale_permute and ISR.  Matrices are real with integer      *)
(* entries, M[f][r][c]; a quotient is kept as an exact fraction.           *)
(***************************************************************************)
\* frequency bins of the metric's inputs
NFreq == 2

\* channels of the metric's inputs
NChan == 2

\* largest entry of an input demixing matrix
MaxEntry == 1

Freqs == 1 .. NFreq

Chans == 1 .. NChan

Abs(x) == IF x < 0 THEN 0 - x ELSE x

RECURSIVE Gcd(_, _)
Gcd(a, b) == IF b = 0 THEN a ELSE Gcd(b, a % b)

Lcm(a, b) == (a \div Gcd(a, b)) * b

RECURSIVE Sum(_, _)
\* fn[1] + ... + fn[n]
Sum(fn, n) == IF n = 0 THEN 0 ELSE fn[n] + Sum(fn, n - 1)

RECURSIVE Max(_, _)
\* the largest of fn[1], ..., fn[n]
Max(fn, n) ==
    IF n = 1 THEN fn[1]
    ELSE LET m == Max(fn, n - 1) IN IF fn[n] > m THEN fn[n] ELSE m

RECURSIVE LcmOf(_)
LcmOf(S) ==
    IF S = {} THEN 1
    ELSE LET x == CHOOSE x \in S : TRUE IN Lcm(x, LcmOf(S \ {x}))

\* W @ A, one product per frequency bin
matmul(Wm, Am) ==
    [f \in Freqs |-> [r \in Chans |-> [c \in Chans |->
        Sum([k \in Chans |-> Wm[f][r][k] * Am[f][k][c]], NChan)]]]

\* scale = np.max(np.abs(P), axis=-1)
RowScale(P) ==
    [f \in Freqs |-> [r \in Chans |-> Max([c \in Chans |-> Abs(P[f][r][c])], NChan)]]

\* err_mat[i][j], the cost of output row j for source i, in units of
\* 1 / (unit^2 * NFreq * NChan): the sum over f and k of
\* (eye[i][k] - |P[f][j][k]| / scale[f][j]) ^ 2
err_mat(P, scale, unit) ==
    [i \in Chans |-> [j \in Chans |->
        Sum([f \in Freqs |->
                Sum([k \in Chans |->
                        LET d == (IF i = k THEN unit ELSE 0)
                                   - Abs(P[f][j][k]) * (unit \div scale[f][j])
                        IN  d * d],
                    NChan)],
            NFreq)]]

ChanPerms == {p \in [Chans -> Chans] : \A c \in Chans : \E r \in Chans : p[r] = c}

AssignmentCost(cost, p) == Sum([i \in Chans |-> cost[i][p[i]]], NChan)

LexLess(p, q) ==
    \E i \in Chans : p[i] < q[i] /\ \A j \in Chans : j < i => p[j] = q[j]

\* scipy's linear_sum_assignment(cost)[1]: an assignment of minimum total
\* cost; which one, when several have it, is a function of the matrix alone
linear_sum_assignment(cost) ==
    LET best == {p \in ChanPerms :
                    \A q \in ChanPerms : AssignmentCost(cost, p) <= AssignmentCost(cost, q)}
    IN  IF solver = "first"
        THEN CHOOSE p \in best : \A q \in best : p = q \/ LexLess(p, q)
        ELSE CHOOSE p \in best : \A q \in best : p = q \/ LexLess(q, p)

\* scale_permute(W, A): the permutation and, for ISR's use, np.abs of the
\* returned P as fractions num / den.  A row of P that is all zero makes the
\* scale zero and the cost matrix NaN, which the solver rejects.
scale_permute(Wm, Am) ==
    LET P == matmul(Wm, Am)
        scale == RowScale(P)
    IN  IF \E f \in Freqs, r \in Chans : scale[f][r] = 0
        THEN [raised |-> TRUE]
        ELSE LET unit == LcmOf({scale[f][r] : f \in Freqs, r \in Chans})
                 perm == linear_sum_assignment(err_mat(P, scale, unit))
             IN  [raised |-> FALSE,
                  perm |-> perm,
                  absP |-> [f \in Freqs |-> [r \in Chans |-> [c \in Chans |->
                               [num |-> Abs(P[f][perm[r]][c]),
                                den |-> scale[f][perm[r]]]]]]]

\* a / b of two IEEE numbers given as fractions, a >= 0 and b >= 0
Divide(a, b) ==
    IF b.num = 0
    THEN IF a.num = 0 THEN [kind |-> "nan"] ELSE [kind |-> "inf"]
    ELSE LET n == a.num * b.den
             d == a.den * b.num
             g == Gcd(n, d)
         IN  [kind |-> "num", num |-> n \div g, den |-> d \div g]

Square(a) == [num |-> a.num * a.num, den |-> a.den * a.den]

\* x + y, where inf and nan propagate as in IEEE arithmetic
Add(x, y) ==
    IF x.kind = "nan" \/ y.kind = "nan" THEN [kind |-> "nan"]
    ELSE IF x.kind = "inf" \/ y.kind = "inf" THEN [kind |-> "inf"]
    ELSE LET d == Lcm(x.den, y.den)
             n == x.num * (d \div x.den) + y.num * (d \div y.den)
             g == Gcd(n, d)
         IN  [kind |-> "num", num |-> n \div g, den |-> d \div g]

RECURSIVE AddAll(_, _)
AddAll(isr, S) ==
    IF S = {} THEN [kind |-> "num", num |-> 0, den |-> 1]
    ELSE LET x == CHOOSE x \in S : TRUE
         IN  Add(isr[x[1]][x[2]][x[3]], AddAll(isr, S \ {x}))

\* what ISR(W, A) does: it raises ValueError (from the solver), or returns
\* 10 * log10(mean), given here by the mean (num / den, inf or nan): the
\* function x -> 10 * log10(x) is increasing, sends 0 to -inf, inf to inf
\* and nan to nan
ISR(Wm, Am) ==
    LET sp == scale_permute(Wm, Am)
    IN  IF sp.raised THEN [kind |-> "ValueError"]
        ELSE LET isr == [f \in Freqs |-> [r \in Chans |-> [c \in Chans |->
                            IF r = c THEN [kind |-> "num", num |-> 0, den |-> 1]
                            ELSE Divide(Square(sp.absP[f][r][c]),
                                        Square(sp.absP[f][r][r]))]]]
                 total == AddAll(isr, Freqs \X Chans \X Chans)
             IN  IF total.kind # "num" THEN total
                 ELSE LET d == total.den * (NFreq * NChan * NChan)
                          g == Gcd(total.num, d)
                      IN  [kind |-> "num", num |-> total.num \div g, den |-> d \div g]

\* the estimate with its output rows scaled and relabelled:
\* row r of the result is scales[r] times row perm[r] of Wm
Relabelled(Wm, scales, perm) ==
    [f \in Freqs |-> [r \in Chans |-> [k \in Chans |-> scales[r] * Wm[f][perm[r]][k]]]]

Identity == [f \in Freqs |-> [r \in Chans |-> [c \in Chans |-> IF r = c THEN 1 ELSE 0]]]

\* a mixing matrix per frequency bin
Mixing == <<  << <<4, 1>>, <<2, -1>> >>,  << <<1, 2>>, <<-3, 4>> >>  >>

\* the scale factors tried on a row
Scales == {-1, 1, 2}

MetricInit ==
    /\ W \in [Freqs -> [Chans -> [Chans -> 0 .. MaxEntry]]]
    /\ A \in {Identity, Mixing}
    /\ solver \in {"first", "last"}
    /\ isr_out = [phase |-> "input"]

\* one_loop's callback: isr_list.append(ISR(loc_demix @ demix_init, mix_mat)),
\* with W the product loc_demix @ demix_init and isr_list empty before
callback ==
    /\ isr_out.phase = "input"
    /\ LET v == ISR(W, A)
       IN  isr_out' = [phase |-> "called",
                       raised |-> v.kind = "ValueError",
                       isr_list |-> IF v.kind = "ValueError" THEN <<>> ELSE <<v>>]
    /\ UNCHANGED <<W, A, solver>>
    /\ UNCHANGED drivervars

\* ISR of the same estimate with its rows scaled and relabelled
Relabel ==
    /\ isr_out.phase = "called"
    /\ \E scales \in [Chans -> Scales], perm \in ChanPerms :
          isr_out' = [phase |-> "relabelled",
                      raised |-> isr_out.raised,
                      isr_list |-> isr_out.isr_list,
                      scales |-> scales,
                      perm |-> perm,
                      value |-> ISR(Relabelled(W, scales, perm), A)]
    /\ UNCHANGED <<W, A, solver>>
    /\ UNCHANGED drivervars

DriverIdle ==
    /\ pc = "idle"
    /\ args = <<>>
    /\ status = <<>>
    /\ results = <<>>
    /\ doneOrder = <<>>
    /\ the_queue = <<>>
    /\ tracker_pc = "idle"
    /\ n_tasks = 0
    /\ isr_tables = EmptyTables
    /\ cost_tables = EmptyTables
    /\ saved = {}

InitISR == DriverIdle /\ MetricInit

NextISR == callback \/ Relabel

SpecISR == InitISR /\ [][NextISR]_vars

(***************************************************************************)
(* Properties of the metric.                                               *)
(***************************************************************************)
\* C5: ISR is invariant to a nonzero scale per output row and to a
\* relabelling of the output rows: it returns for the transformed estimate
\* what it returns for the estimate, also when several assignments have
\* the minimum cost.
C5_ScalePermutationInvariant ==
    isr_out.phase = "relabelled" => isr_out.value = ISR(W, A)

\* a diagonal entry of the corrected product is exactly zero
DiagonalZero ==
    LET sp == scale_permute(W, A)
    IN  /\ ~ sp.raised
        /\ \E f \in Freqs, r \in Chans : sp.absP[f][r][r].num = 0

\* C6: when a diagonal entry of the corrected product is exactly zero, ISR
\* reports an error and no infinite or NaN value is appended to the trajectory.
C6_ZeroDiagonalIsAnError ==
    (isr_out.phase # "input" /\ DiagonalZero) =>
        /\ isr_out.raised
        /\ \A n \in 1 .. Len(isr_out.isr_list) :
              isr_out.isr_list[n].kind \notin {"inf", "nan"}

\* the solver has one assignment of minimum cost for the estimate
UniqueAssignment ==
    LET P == matmul(W, A)
        scale == RowScale(P)
        cost == err_mat(P, scale, LcmOf({scale[f][r] : f \in Freqs, r \in Chans}))
    IN  /\ \A f \in Freqs, r \in Chans : scale[f][r] # 0
        /\ Cardinality({p \in ChanPerms :
              \A q \in ChanPerms : AssignmentCost(cost, p) <= AssignmentCost(cost, q)}) = 1

ISR_InvariantWhenUnique ==
    (isr_out.phase = "relabelled" /\ UniqueAssignment) => isr_out.value = ISR(W, A)

====
